---- MODULE Spec2Model ----
(***************************************************************************)
(* A model of ctrld's OS DNS configurator for NetworkManager               *)
(* (internal/dns/nm.go: nmManager.SetDNS / nmManager.trySet) and of its    *)
(* DoH / DoH3 upstream resolver (dohResolver.Resolve).                     *)
(*                                                                         *)
(* Part 1 models the translation trySet performs on an OSConfig and the    *)
(* retry loop of SetDNS, one action per IPC round trip, against an OS      *)
(* whose applied connection carries a version token.                       *)
(* Part 2 models Resolve for callers that share one resolver.              *)
(***************************************************************************)
EXTENDS Integers, Sequences, FiniteSets, TLC

(***************************************************************************)
(* Bounds of the model.                                                    *)
(***************************************************************************)
MaxNameservers == 2   \* longest config.Nameservers
MaxSearch      == 2   \* longest config.SearchDomains
MaxMatch       == 2   \* longest config.MatchDomains
MaxAttempts    == 2   \* trySet attempts the deadline leaves room for
MaxCalls       == 2   \* Resolve calls one caller makes in a row
MaxGrowths     == 2   \* sizes above the initial one the OS may ask for
MaxServers     == 2   \* DNS server entries the OS reports in all

(***************************************************************************)
(* Constants of the program.                                               *)
(***************************************************************************)
\* int32(-1 << 31); written as a difference because 2^31 is not a TLC integer
highestPriority == -2147483647 - 1
mediumPriority  == 1
lowerPriority   == 200

\* endian.Native is fixed by the build; amd64 and arm64 are little-endian.
NativeBigEndian == FALSE

(***************************************************************************)
(* Values: sequences up to a length, IP addresses, domain names, variants  *)
(* and Go maps.                                                            *)
(***************************************************************************)
SeqsUpTo(S, n) == UNION {[1..k -> S] : k \in 0..n}

\* netip.Addr: its family and its 16-byte form (As16); an IPv4 address is
\* held in the v4-mapped form ::ffff:a.b.c.d
Addr4(a, b, c, d) == [z |-> "v4", b16 |-> <<0,0,0,0,0,0,0,0,0,0,255,255,a,b,c,d>>]
Addr6(bytes)      == [z |-> "v6", b16 |-> bytes]
Is4(ip)  == ip.z = "v4"
As16(ip) == ip.b16

Addrs == { Addr4(10, 0, 0, 1),
           Addr6(<<253,0,0,0,0,0,0,0,0,0,0,0,0,0,0,1>>) }

\* endian.Native.Uint32 of a four-byte slice
Uint32(b) ==
  IF NativeBigEndian
  THEN ((b[1] * 256 + b[2]) * 256 + b[3]) * 256 + b[4]
  ELSE ((b[4] * 256 + b[3]) * 256 + b[2]) * 256 + b[1]

\* dnsname.FQDN as its labels; the root domain has none
Root == << >>
Domains == { Root, <<"a">>, <<"b">> }

RECURSIVE JoinLabels(_)
JoinLabels(labels) ==
  IF labels = << >> THEN ""
  ELSE Head(labels) \o "." \o JoinLabels(Tail(labels))

\* FQDN.WithTrailingDot: every label followed by a dot; the root is "."
WithTrailingDot(dom) == IF dom = Root THEN "." ELSE JoinLabels(dom)

\* dbus.MakeVariant: the value with the D-Bus signature of its Go type
MakeVariant(sig, v) == [sig |-> sig, val |-> v]

\* a Go map as a function on its keys
MapPut(m, k, v) == [x \in (DOMAIN m) \cup {k} |-> IF x = k THEN v ELSE m[x]]
MapDelete(m, k) == [x \in (DOMAIN m) \ {k} |-> m[x]]
EmptyMap        == [x \in {} |-> 0]

\* the zero OSConfig
NoConfig == [Nameservers |-> << >>, SearchDomains |-> << >>, MatchDomains |-> << >>]

OSConfigs ==
  [ Nameservers   : SeqsUpTo(Addrs, MaxNameservers),
    SearchDomains : SeqsUpTo(Domains, MaxSearch),
    MatchDomains  : SeqsUpTo(Domains, MaxMatch) ]

(***************************************************************************)
(* trySet, lines 125-252: the translation of an OSConfig into the settings *)
(* map that is handed to Reapply.                                          *)
(***************************************************************************)

\* mutant of dnsv4Of: the ip.Is4() test is missing
RECURSIVE dnsv4OfAnyFamily(_)
dnsv4OfAnyFamily(ns) ==
  IF ns = << >> THEN << >>
  ELSE <<Uint32(SubSeq(As16(Head(ns)), 13, 16))>> \o dnsv4OfAnyFamily(Tail(ns))

\* lines 129-136, the ip.Is4() branch: the IPv4 nameservers, in order
RECURSIVE dnsv4Of(_)
dnsv4Of(ns) ==
  IF ns = << >> THEN << >>
  ELSE IF Is4(Head(ns))
       THEN <<Uint32(SubSeq(As16(Head(ns)), 13, 16))>> \o dnsv4Of(Tail(ns))
       ELSE dnsv4Of(Tail(ns))

\* lines 129-136, the else branch: every other nameserver, in order
RECURSIVE dnsv6Of(_)
dnsv6Of(ns) ==
  IF ns = << >> THEN << >>
  ELSE IF Is4(Head(ns))
       THEN dnsv6Of(Tail(ns))
       ELSE <<As16(Head(ns))>> \o dnsv6Of(Tail(ns))

\* lines 141-157: one address-data entry per IPv6 address of the interface
RECURSIVE addrs6Of(_)
addrs6Of(ifaddrs) ==
  IF ifaddrs = << >> THEN << >>
  ELSE <<[address |-> Head(ifaddrs), prefix |-> 128]>> \o addrs6Of(Tail(ifaddrs))

\* mutant of SearchLoop: the seen-set is not consulted
RECURSIVE SearchLoopNoSeen(_, _, _)
SearchLoopNoSeen(doms, acc, prefix) ==
  IF doms = << >> THEN acc
  ELSE SearchLoopNoSeen(Tail(doms),
                        [seen   |-> acc.seen \cup {Head(doms)},
                         search |-> Append(acc.search,
                                           prefix \o WithTrailingDot(Head(doms)))],
                        prefix)

\* lines 162-166 and 169-173: one pass of a loop body over the domains doms,
\* on the pair (seen, search); prefix is "" or "~"
RECURSIVE SearchLoop(_, _, _)
SearchLoop(doms, acc, prefix) ==
  IF doms = << >> THEN acc
  ELSE IF Head(doms) \in acc.seen
       THEN SearchLoop(Tail(doms), acc, prefix)
       ELSE SearchLoop(Tail(doms),
                       [seen   |-> acc.seen \cup {Head(doms)},
                        search |-> Append(acc.search,
                                          prefix \o WithTrailingDot(Head(doms)))],
                       prefix)

\* lines 159-167: the SearchDomains loop, from an empty seen-set
SearchDomainsLoop(config) ==
  SearchLoop(config.SearchDomains, [seen |-> {}, search |-> << >>], "")

\* mutant of MatchDomainsLoop: the loop starts from a seen-set of its own
MatchDomainsLoopOwnSeen(config, acc) ==
  SearchLoop(config.MatchDomains, [seen |-> {}, search |-> acc.search], "~")

\* lines 168-174: the MatchDomains loop, on the seen-set the first loop left
MatchDomainsLoop(config, acc) ==
  SearchLoop(config.MatchDomains, acc, "~")

\* mutant of AllDomainsMatch: the all-domains match is appended always
AllDomainsMatchAlways(config, search) == Append(search, "~.")

\* lines 175-178: the all-domains match of non-split routing
AllDomainsMatch(config, search) ==
  IF Len(config.MatchDomains) = 0 THEN Append(search, "~.") ELSE search

\* lines 159-178: the search list written to both sections
BuildSearch(config) ==
  AllDomainsMatch(config,
                  MatchDomainsLoop(config, SearchDomainsLoop(config)).search)

\* mutant of ipv4Priority: the split-DNS test is inverted
ipv4PriorityInverted(dnsv4, config) ==
  IF Len(dnsv4) = 0 THEN lowerPriority
  ELSE IF Len(config.MatchDomains) = 0 THEN mediumPriority
  ELSE highestPriority

\* lines 191-204: the dns-priority of the ipv4 section
ipv4Priority(dnsv4, config) ==
  IF Len(dnsv4) = 0 THEN lowerPriority
  ELSE IF Len(config.MatchDomains) > 0 THEN mediumPriority
  ELSE highestPriority

\* mutant of ipv6Priority: the test is on all nameservers, not on dnsv6
ipv6PriorityAnyFamily(dnsv6, config) ==
  IF Len(config.Nameservers) = 0 THEN lowerPriority
  ELSE IF Len(config.MatchDomains) > 0 THEN mediumPriority
  ELSE highestPriority

\* lines 229-237: the dns-priority of the ipv6 section
ipv6Priority(dnsv6, config) ==
  IF Len(dnsv6) = 0 THEN lowerPriority
  ELSE IF Len(config.MatchDomains) > 0 THEN mediumPriority
  ELSE highestPriority

\* mutant of ipv4Writes: the nameservers are added to the dns list found
ipv4WritesAppendingDNS(ipv4Map, config, search) ==
  LET dnsv4 == dnsv4Of(config.Nameservers)
      found == IF "dns" \in DOMAIN ipv4Map THEN ipv4Map["dns"].val ELSE << >>
      m1 == MapPut(ipv4Map, "dns", MakeVariant("au", found \o dnsv4))
      m2 == MapPut(m1, "dns-search", MakeVariant("as", search))
  IN  MapPut(m2, "dns-priority", MakeVariant("i", ipv4Priority(dnsv4, config)))

\* mutant of ipv4Writes: the method is written in the ipv4 section too
ipv4WritesWithMethod(ipv4Map, config, search) ==
  LET dnsv4 == dnsv4Of(config.Nameservers)
      m0 == MapPut(ipv4Map, "method", MakeVariant("s", "auto"))
      m1 == MapPut(m0, "dns", MakeVariant("au", dnsv4))
      m2 == MapPut(m1, "dns-search", MakeVariant("as", search))
  IN  MapPut(m2, "dns-priority", MakeVariant("i", ipv4Priority(dnsv4, config)))

\* lines 187-204: the writes to the ipv4 section
ipv4Writes(ipv4Map, config, search) ==
  LET dnsv4 == dnsv4Of(config.Nameservers)
      m1 == MapPut(ipv4Map, "dns", MakeVariant("au", dnsv4))
      m2 == MapPut(m1, "dns-search", MakeVariant("as", search))
  IN  MapPut(m2, "dns-priority", MakeVariant("i", ipv4Priority(dnsv4, config)))

\* lines 206-237: the writes to the ipv6 section
ipv6Writes(ipv6Map, config, search, addrs6) ==
  LET dnsv6 == dnsv6Of(config.Nameservers)
      m1 == MapPut(ipv6Map, "method", MakeVariant("s", "auto"))
      m2 == IF Len(addrs6) > 0
            THEN MapPut(m1, "address-data", MakeVariant("aa{sv}", addrs6))
            ELSE m1
      m3 == MapPut(m2, "ignore-auto-routes", MakeVariant("b", TRUE))
      m4 == MapPut(m3, "ignore-auto-dns", MakeVariant("b", TRUE))
      m5 == MapPut(m4, "never-default", MakeVariant("b", TRUE))
      m6 == MapPut(m5, "dns", MakeVariant("aay", dnsv6))
      m7 == MapPut(m6, "dns-search", MakeVariant("as", search))
  IN  MapPut(m7, "dns-priority", MakeVariant("i", ipv6Priority(dnsv6, config)))

\* lines 245-252: the properties NetworkManager returns but rejects
deprecatedProperties == <<"addresses", "routes">>

RECURSIVE DeleteAll(_, _)
DeleteAll(m, props) ==
  IF props = << >> THEN m
  ELSE DeleteAll(MapDelete(m, Head(props)), Tail(props))

\* a write through settings["ipv4"] or settings["ipv6"] when the section is
\* absent is an assignment to an entry of a nil map, which panics
WritesPanic(settings) ==
  ~ ({"ipv4", "ipv6"} \subseteq DOMAIN settings)

\* lines 125-252: the settings map after trySet's mutation (the sections are
\* maps held by reference, so the writes land in settings itself)
MutateSettings(settings, config, ifaddrs) ==
  LET search == BuildSearch(config)
      v4 == DeleteAll(ipv4Writes(settings["ipv4"], config, search),
                      deprecatedProperties)
      v6 == DeleteAll(ipv6Writes(settings["ipv6"], config, search,
                                 addrs6Of(ifaddrs)),
                      deprecatedProperties)
  IN  MapPut(MapPut(settings, "ipv4", v4), "ipv6", v6)

(***************************************************************************)
(* State.                                                                  *)
(***************************************************************************)
Callers == {"c1", "c2"}      \* SetDNS calls on one interface
Queriers == {"q1", "q2"}     \* Resolve calls on one resolver

VARIABLES
  config,      \* SetDNS: the OSConfig each caller applies
  pc,          \* SetDNS: where each caller stands
  expired,     \* SetDNS: ctx.Err() /= nil, the reconfigTimeout deadline passed
  err,         \* SetDNS: its variable err
  rv,          \* SetDNS: the returned error, once pc is "done"
  nAttempts,   \* trySet calls made so far by the caller
  settings,    \* trySet: the map GetAppliedConnection stored
  version,     \* trySet: the version token GetAppliedConnection stored
  sent,        \* the caller's last Reapply call: its settings and version
               \* arguments and, as history, the version id the device had,
               \* the attempt that made it, the map that attempt had read
               \* and the IPv6 addresses the interface had
  osSettings,  \* NetworkManager: the device's applied connection
  osVersion,   \* NetworkManager: the applied connection's version id
  overtaken,   \* history: another caller's Reapply succeeded since the read
  lostUpdate   \* history: a Reapply succeeded on an overtaken read

VARIABLES
  isDoH3,             \* dohResolver.isDoH3
  http3RoundTripper,  \* dohResolver.http3RoundTripper: the handle held
  rtSession,          \* the round-tripper's cached QUIC session
  rtCloses,           \* history: Close() calls on the round-tripper
  qpc,                \* Resolve: where each caller stands
  nCalls,             \* Resolve calls started so far by the caller
  exchange,           \* what the upstream and the network do with the request
  aborted,            \* the request's session was closed under it
  result,             \* Resolve's return values: [msg, err]
  handleBefore,       \* history: the handle held when the call started
  closesBefore        \* history: rtCloses when the call started

VARIABLES
  dpc,       \* nameservers(): where the call stands
  l,         \* adapterAddresses: its variable l, the size asked for
  getCalls,  \* history: the GetAdaptersAddresses calls made: the buffer
             \* length given, the errno returned and the size written to l
  aas,       \* adapterAddresses: the adapter list returned
  aaErr,     \* adapterAddresses: the error returned
  ns         \* nameservers(): the list returned

setVars == <<config, pc, expired, err, rv, nAttempts, settings, version, sent,
             osSettings, osVersion, overtaken, lostUpdate>>

dohVars == <<isDoH3, http3RoundTripper, rtSession, rtCloses, qpc, nCalls,
             exchange, aborted, result, handleBefore, closesBefore>>

winVars == <<dpc, l, getCalls, aas, aaErr, ns>>

vars == <<setVars, dohVars, winVars>>

(***************************************************************************)
(* NetworkManager and the network stack, as trySet meets them.             *)
(***************************************************************************)
\* an applied connection as GetAppliedConnection returns it
AppliedFull ==
  ( "connection" :> ("id" :> MakeVariant("s", "eth-test")) ) @@
  ( "ipv4" :> ( "method"    :> MakeVariant("s", "manual") @@
                "addresses" :> MakeVariant("aau", <<<<16777226, 24, 0>>>>) @@
                "routes"    :> MakeVariant("aau", << >>) @@
                "dns"       :> MakeVariant("au", <<134744072>>) ) ) @@
  ( "ipv6" :> ( "method"    :> MakeVariant("s", "link-local") @@
                "ip6-privacy" :> MakeVariant("i", 2) @@
                "address-data" :> MakeVariant("aa{sv}",
                                    <<[address |-> "fd00::9", prefix |-> 64]>>) @@
                "addresses" :> MakeVariant("a(ayuay)", << >>) @@
                "routes"    :> MakeVariant("a(ayuayu)", << >>) ) )

\* an applied connection without an ipv6 section
AppliedNoIPv6 == MapDelete(AppliedFull, "ipv6")

AppliedConnections == { AppliedFull, AppliedNoIPv6 }

\* lines 239-244: NetworkManager returns the deprecated properties of the
\* ipv4 and ipv6 sections for reading, whatever map it was handed
ReturnedForReading(applied) ==
  LET deprecated == { deprecatedProperties[i] : i \in DOMAIN deprecatedProperties }
  IN  [ section \in DOMAIN applied |->
          IF section \in {"ipv4", "ipv6"}
          THEN [ k \in DOMAIN applied[section] \cup deprecated |->
                   IF k \in DOMAIN applied[section]
                   THEN applied[section][k]
                   ELSE AppliedFull[section][k] ]
          ELSE applied[section] ]

\* the IPv6 addresses net.InterfaceByName(...).Addrs() may report
InterfaceAddrs6 == { << >>, <<"fe80::1">> }

\* the error SetDNS and trySet hold: nil or the failing operation's name
Errors == { "nil", "connecting to system bus", "getDeviceByIpIface",
            "getAppliedConnection", "reapply" }

\* mutant of ReapplyVersion: the version id the device has now
ReapplyVersionCurrent(p) == osVersion

\* line 254: the version token handed to Reapply
ReapplyVersion(p) == version[p]

(***************************************************************************)
(* SetDNS, lines 49-68, and trySet, lines 70-259.                          *)
(***************************************************************************)
\* mutant of trySetReturns: the return after a failed step is missing, the
\* error is kept and trySet goes on to the mutation and Reapply
trySetGoesOn(p, e) ==
  /\ err' = [err EXCEPT ![p] = e]
  /\ IF e = "nil"
     THEN /\ pc' = [pc EXCEPT ![p] = "done"]
          /\ rv' = [rv EXCEPT ![p] = e]
     ELSE /\ pc' = [pc EXCEPT ![p] = "mutate"]
          /\ rv' = rv

\* lines 60-67: trySet returned e to the loop: nil breaks out and is returned,
\* anything else leads to the sleep of line 64
trySetReturns(p, e) ==
  /\ err' = [err EXCEPT ![p] = e]
  /\ IF e = "nil"
     THEN /\ pc' = [pc EXCEPT ![p] = "done"]
          /\ rv' = [rv EXCEPT ![p] = e]
     ELSE /\ pc' = [pc EXCEPT ![p] = "sleep"]
          /\ rv' = rv

\* mutant of LoopExitValue: the deadline's exit returns nil
LoopExitValueNil(p) == "nil"

\* the value SetDNS returns when the loop condition fails, line 67
LoopExitValue(p) == err[p]

\* line 59: the loop condition; a new attempt starts only before the deadline
LoopCheck(p) ==
  /\ pc[p] = "loop"
  /\ IF expired[p]
     THEN /\ pc' = [pc EXCEPT ![p] = "done"]
          /\ rv' = [rv EXCEPT ![p] = LoopExitValue(p)]
          /\ nAttempts' = nAttempts
     ELSE /\ nAttempts[p] < MaxAttempts
          /\ pc' = [pc EXCEPT ![p] = "bus"]
          /\ nAttempts' = [nAttempts EXCEPT ![p] = @ + 1]
          /\ rv' = rv
  /\ UNCHANGED <<config, expired, err, settings, version, sent, osSettings,
                 osVersion, overtaken, lostUpdate, dohVars, winVars>>

\* lines 71-74: dbus.SystemBus()
SystemBus(p) ==
  /\ pc[p] = "bus"
  /\ \E ok \in BOOLEAN :
       IF ok
       THEN /\ pc' = [pc EXCEPT ![p] = "getDevice"]
            /\ UNCHANGED <<err, rv>>
       ELSE trySetReturns(p, "connecting to system bus")
  /\ UNCHANGED <<config, expired, nAttempts, settings, version, sent,
                 osSettings, osVersion, overtaken, lostUpdate, dohVars, winVars>>

\* lines 100-108: GetDeviceByIpIface
GetDeviceByIpIface(p) ==
  /\ pc[p] = "getDevice"
  /\ \E ok \in BOOLEAN :
       IF ok
       THEN /\ pc' = [pc EXCEPT ![p] = "getApplied"]
            /\ UNCHANGED <<err, rv>>
       ELSE trySetReturns(p, "getDeviceByIpIface")
  /\ UNCHANGED <<config, expired, nAttempts, settings, version, sent,
                 osSettings, osVersion, overtaken, lostUpdate, dohVars, winVars>>

\* lines 110-120: GetAppliedConnection stores the settings and their version
GetAppliedConnection(p) ==
  /\ pc[p] = "getApplied"
  /\ \E ok \in BOOLEAN :
       IF ok
       THEN /\ settings' = [settings EXCEPT ![p] = ReturnedForReading(osSettings)]
            /\ version' = [version EXCEPT ![p] = osVersion]
            /\ overtaken' = [overtaken EXCEPT ![p] = FALSE]
            /\ pc' = [pc EXCEPT ![p] = "mutate"]
            /\ UNCHANGED <<err, rv>>
       ELSE /\ trySetReturns(p, "getAppliedConnection")
            /\ UNCHANGED <<settings, version, overtaken>>
  /\ UNCHANGED <<config, expired, nAttempts, sent, osSettings, osVersion,
                 lostUpdate, dohVars, winVars>>

\* lines 125-258: the mutation of the stored map and the Reapply call.
\* NetworkManager takes the map only with the current version id, and bumps
\* the id when it does; it may refuse a map for other reasons.
Reapply(p) ==
  /\ pc[p] = "mutate"
  /\ IF WritesPanic(settings[p])
     THEN /\ pc' = [pc EXCEPT ![p] = "panic"]
          /\ UNCHANGED <<err, rv, settings, sent, osSettings, osVersion,
                         overtaken, lostUpdate>>
     ELSE \E ifaddrs \in InterfaceAddrs6, accept \in BOOLEAN :
            LET new == MutateSettings(settings[p], config[p], ifaddrs)
                ver == ReapplyVersion(p)
            IN  /\ settings' = [settings EXCEPT ![p] = new]
                /\ sent' = [sent EXCEPT ![p] = <<[settings |-> new,
                                                  version  |-> ver,
                                                  at       |-> osVersion,
                                                  attempt  |-> nAttempts[p],
                                                  read     |-> settings[p],
                                                  ifaddrs  |-> ifaddrs]>>]
                /\ IF accept /\ ver = osVersion
                   THEN /\ osSettings' = new
                        /\ osVersion' = osVersion + 1
                        /\ lostUpdate' = (lostUpdate \/ overtaken[p])
                        /\ overtaken' = [q \in Callers |-> q /= p]
                        /\ trySetReturns(p, "nil")
                   ELSE /\ trySetReturns(p, "reapply")
                        /\ UNCHANGED <<osSettings, osVersion, overtaken,
                                       lostUpdate>>
  /\ UNCHANGED <<config, expired, nAttempts, version, dohVars, winVars>>

\* line 64: time.Sleep(10 * time.Millisecond), then back to the condition
Sleep(p) ==
  /\ pc[p] = "sleep"
  /\ pc' = [pc EXCEPT ![p] = "loop"]
  /\ UNCHANGED <<config, expired, err, rv, nAttempts, settings, version, sent,
                 osSettings, osVersion, overtaken, lostUpdate, dohVars, winVars>>

\* line 50: the deadline of context.WithTimeout passes while SetDNS runs
Deadline(p) ==
  /\ pc[p] \notin {"idle", "done", "panic"}
  /\ ~ expired[p]
  /\ expired' = [expired EXCEPT ![p] = TRUE]
  /\ UNCHANGED <<config, pc, err, rv, nAttempts, settings, version, sent,
                 osSettings, osVersion, overtaken, lostUpdate, dohVars, winVars>>

\* the steps of one trySet call
trySetStep(p) ==
  \/ SystemBus(p)
  \/ GetDeviceByIpIface(p)
  \/ GetAppliedConnection(p)
  \/ Reapply(p)

\* the steps of one SetDNS call
SetDNSStep(p) ==
  \/ LoopCheck(p)
  \/ trySetStep(p)
  \/ Sleep(p)
  \/ Deadline(p)

\* the callers of SetDNS hold the configs of one assignment in assignments
\* and stand at line 59 (attempts = 0) or inside their first trySet
\* (attempts = 1); the device's applied connection is one of applied
SetDNSInit(assignments, attempts, applied) ==
  /\ \E cs \in assignments :
       /\ config = [p \in Callers |-> IF p \in DOMAIN cs THEN cs[p] ELSE NoConfig]
       /\ pc = [p \in Callers |-> IF p \notin DOMAIN cs THEN "idle"
                                  ELSE IF attempts = 0 THEN "loop" ELSE "bus"]
       /\ nAttempts = [p \in Callers |-> IF p \in DOMAIN cs THEN attempts ELSE 0]
  /\ expired = [p \in Callers |-> FALSE]
  /\ err = [p \in Callers |-> "nil"]
  /\ rv = [p \in Callers |-> "nil"]
  /\ settings = [p \in Callers |-> EmptyMap]
  /\ version = [p \in Callers |-> 0]
  /\ sent = [p \in Callers |-> << >>]
  /\ osSettings \in applied
  /\ osVersion = 1
  /\ overtaken = [p \in Callers |-> FALSE]
  /\ lostUpdate = FALSE

\* no SetDNS call is made
SetDNSIdle == SetDNSInit({EmptyMap}, 0, {AppliedFull})

(***************************************************************************)
(* dohResolver.Resolve, part_001 lines 31-69, for callers that share one   *)
(* resolver.                                                               *)
(***************************************************************************)
\* a DNS message and its packed form (dns.Msg.Pack / Unpack)
Answer == [id |-> 7, rcode |-> 0]
Pack(msg) == <<msg.id, msg.rcode>>
WellFormed(buf) == Len(buf) = 2
Unpack(buf) == [id |-> buf[1], rcode |-> buf[2]]

\* a message that Unpack left partly filled
PartialMsg == [id |-> 0, rcode |-> 0]
\* the nil *dns.Msg
NilMsg == [nil |-> TRUE]

\* what can happen to a request that was sent: no response at all, or a
\* response with a status and a body that may fail to be read
Exchanges ==
  { [kind |-> "transport error"] } \cup
  [ kind : {"response"}, status : {200, 503}, readOk : BOOLEAN,
    body : { Pack(Answer), <<1>> } ]

NoExchange == [kind |-> "none"]

\* the exchange that gives the caller the upstream's answer
Succeeds(x) ==
  /\ x.kind = "response"
  /\ x.status = 200
  /\ x.readOk
  /\ WellFormed(x.body)

ResolveIdle ==
  /\ isDoH3 \in BOOLEAN
  /\ http3RoundTripper = "rt1"
  /\ rtSession = "none"
  /\ rtCloses = 0
  /\ qpc = [q \in Queriers |-> "idle"]
  /\ nCalls = [q \in Queriers |-> 0]
  /\ exchange = [q \in Queriers |-> NoExchange]
  /\ aborted = [q \in Queriers |-> FALSE]
  /\ result = [q \in Queriers |-> [msg |-> NilMsg, err |-> "nil"]]
  /\ handleBefore = [q \in Queriers |-> "rt1"]
  /\ closesBefore = [q \in Queriers |-> 0]

\* mutant of ClosesRoundTripper: the round-tripper is left as it is
ClosesRoundTripperNever(doh3) == FALSE

\* mutant of ClosesRoundTripper: the isDoH3 test is missing
ClosesRoundTripperAlways(doh3) == TRUE

\* lines 51-53: whether the failed exchange closes the round-tripper
ClosesRoundTripper(doh3) == doh3

\* mutant of StatusOK: the status of the response is not looked at
StatusOKAlways(status) == TRUE

\* line 63: resp.StatusCode against http.StatusOK
StatusOK(status) == status = 200

\* line 64: the error made of the body, as a string, and the status code
WrongResponse(body, status) ==
  "wrong response from DOH server, got: " \o ToString(body) \o
  ", status: " \o ToString(status)

\* lines 58-68: the return values for a response that arrived
ResponseResult(x) ==
  IF ~ x.readOk
  THEN [msg |-> NilMsg, err |-> "could not read message from response"]
  ELSE IF ~ StatusOK(x.status)
  THEN [msg |-> NilMsg, err |-> WrongResponse(x.body, x.status)]
  ELSE IF WellFormed(x.body)
  THEN [msg |-> Unpack(x.body), err |-> "nil"]
  ELSE [msg |-> PartialMsg, err |-> "unpack"]

\* lines 32-49: pack the query, build the request and send it with c.Do, over
\* the round-tripper for DoH3 and over the transport otherwise
ResolveSend(q) ==
  /\ qpc[q] \in {"idle", "returned"}
  /\ nCalls[q] < MaxCalls
  /\ nCalls' = [nCalls EXCEPT ![q] = @ + 1]
  /\ handleBefore' = [handleBefore EXCEPT ![q] = http3RoundTripper]
  /\ closesBefore' = [closesBefore EXCEPT ![q] = rtCloses]
  /\ aborted' = [aborted EXCEPT ![q] = FALSE]
  /\ \E packOk \in BOOLEAN, reqOk \in BOOLEAN :
       IF ~ packOk
       THEN /\ result' = [result EXCEPT ![q] = [msg |-> NilMsg, err |-> "pack"]]
            /\ qpc' = [qpc EXCEPT ![q] = "returned"]
            /\ exchange' = [exchange EXCEPT ![q] = NoExchange]
            /\ UNCHANGED rtSession
       ELSE IF ~ reqOk
       THEN /\ result' = [result EXCEPT ![q] =
                            [msg |-> NilMsg, err |-> "could not create request"]]
            /\ qpc' = [qpc EXCEPT ![q] = "returned"]
            /\ exchange' = [exchange EXCEPT ![q] = NoExchange]
            /\ UNCHANGED rtSession
       ELSE /\ \E x \in Exchanges : exchange' = [exchange EXCEPT ![q] = x]
            /\ qpc' = [qpc EXCEPT ![q] = "inflight"]
            /\ rtSession' = IF isDoH3 THEN "open" ELSE rtSession
            /\ UNCHANGED result
  /\ UNCHANGED <<isDoH3, http3RoundTripper, rtCloses, setVars, winVars>>

\* lines 49-68: c.Do returns. A request whose session was closed under it
\* fails like one the network lost. A failed DoH3 exchange closes the shared
\* round-tripper, and with it the session of every request in flight.
ResolveReturn(q) ==
  /\ qpc[q] = "inflight"
  /\ qpc' = [qpc EXCEPT ![q] = "returned"]
  /\ IF exchange[q].kind = "transport error" \/ aborted[q]
     THEN /\ result' = [result EXCEPT ![q] =
                          [msg |-> NilMsg, err |-> "could not perform request"]]
          /\ IF ClosesRoundTripper(isDoH3)
             THEN /\ rtCloses' = rtCloses + 1
                  /\ rtSession' = "none"
                  /\ aborted' = [r \in Queriers |->
                                   aborted[r] \/ (r /= q /\ qpc[r] = "inflight")]
             ELSE UNCHANGED <<rtCloses, rtSession, aborted>>
     ELSE /\ result' = [result EXCEPT ![q] = ResponseResult(exchange[q])]
          /\ UNCHANGED <<rtCloses, rtSession, aborted>>
  /\ UNCHANGED <<isDoH3, http3RoundTripper, nCalls, exchange, handleBefore,
                 closesBefore, setVars, winVars>>

ResolveStep(q) ==
  \/ ResolveSend(q)
  \/ ResolveReturn(q)

(***************************************************************************)
(* nameservers() and adapterAddresses(), part_000 lines 12-71, on Windows. *)
(***************************************************************************)
\* line 49: the recommended initial size of the buffer
RecommendedInitialSize == 15000

\* the sizes GetAdaptersAddresses may write to l: none, one below the initial
\* size, the initial size, and MaxGrowths larger ones
Sizes == {0, 10000} \cup
         { RecommendedInitialSize + 5000 * k : k \in 0..MaxGrowths }

\* the errno of GetAdaptersAddresses, line 52
Errnos == { "nil", "ERROR_BUFFER_OVERFLOW", "ERROR_NOT_ENOUGH_MEMORY" }

\* what the OS may answer to a call with a buffer of the given length: a
\* success uses no more than the buffer, a buffer overflow reports the size
\* it wants, another failure leaves l as it is
OSResponses(given) ==
  { r \in [errno : Errnos, size : Sizes] :
      /\ r.errno = "nil" => r.size <= given
      /\ r.errno = "ERROR_NOT_ENOUGH_MEMORY" => r.size = given }

\* the socket address of a DNS server entry: dns.Address.Sockaddr.Sockaddr()
\* gives a SockaddrInet4, a SockaddrInet6, another type, or an error
Sockaddrs ==
  { [family |-> "inet4", addr |-> <<10, 0, 0, 1>>],
    [family |-> "inet4", addr |-> <<254, 192, 0, 1>>],
    [family |-> "inet6", addr |-> <<254,192,0,0,0,0,255,255,0,0,0,0,0,0,0,1>>],
    [family |-> "inet6", addr |-> <<254,208,0,0,0,0,0,0,0,0,0,0,0,0,0,1>>],
    [family |-> "inet6", addr |-> <<32,1,13,184,0,0,0,0,0,0,0,0,0,0,0,1>>],
    [family |-> "unix"],
    [family |-> "invalid"] }

\* the adapter lists the OS may report: the DNS server entries of two
\* adapters, each adapter a list of socket addresses
AdapterLists ==
  UNION { { <<SubSeq(entries, 1, k), SubSeq(entries, k + 1, Len(entries))>> :
              k \in 0..Len(entries) } :
          entries \in SeqsUpTo(Sockaddrs, MaxServers) }

\* net.IPv4: the 16-byte form of an IPv4 address
IPv4(a, b, c, d) == <<0,0,0,0,0,0,0,0,0,0,255,255,a,b,c,d>>

\* net.IP.To4: the 4 bytes of a v4-mapped 16-byte address, or none
IsV4Mapped(ip) ==
  /\ \A i \in 1..10 : ip[i] = 0
  /\ ip[11] = 255 /\ ip[12] = 255

\* lowercase hexadecimal without leading zeros
HexDigits == <<"0","1","2","3","4","5","6","7","8","9","a","b","c","d","e","f">>
RECURSIVE Hex(_)
Hex(n) == IF n < 16 THEN HexDigits[n + 1]
          ELSE Hex(n \div 16) \o HexDigits[(n % 16) + 1]

\* the 16-bit groups of a 16-byte address
Groups(ip) == [i \in 1..8 |-> ip[2 * i - 1] * 256 + ip[2 * i]]

\* the length of the run of zero groups that starts at group i
RECURSIVE ZeroRun(_, _)
ZeroRun(g, i) == IF i > 8 \/ g[i] /= 0 THEN 0 ELSE 1 + ZeroRun(g, i + 1)

\* the first longest run of two or more zero groups, as the group it starts
\* at and the group after it; 0 when there is none
Compressed(g) ==
  LET longest == CHOOSE n \in 0..8 :
                   /\ \E i \in 1..8 : ZeroRun(g, i) = n
                   /\ \A i \in 1..8 : ZeroRun(g, i) <= n
      e0 == CHOOSE i \in 1..8 :
              /\ ZeroRun(g, i) = longest
              /\ \A j \in 1..(i - 1) : ZeroRun(g, j) < longest
  IN  IF longest < 2 THEN [e0 |-> 0, e1 |-> 0]
      ELSE [e0 |-> e0, e1 |-> e0 + longest]

\* the groups from i on, in the text form of an IPv6 address
RECURSIVE HexGroups(_, _, _)
HexGroups(g, z, i) ==
  IF i > 8 THEN ""
  ELSE IF i = z.e0
       THEN "::" \o (IF z.e1 > 8 THEN ""
                     ELSE Hex(g[z.e1]) \o HexGroups(g, z, z.e1 + 1))
       ELSE (IF i > 1 THEN ":" ELSE "") \o Hex(g[i]) \o HexGroups(g, z, i + 1)

\* net.IP.String: dotted decimal for a v4-mapped address, else the IPv6 text
IPString(ip) ==
  IF IsV4Mapped(ip)
  THEN ToString(ip[13]) \o "." \o ToString(ip[14]) \o "." \o
       ToString(ip[15]) \o "." \o ToString(ip[16])
  ELSE HexGroups(Groups(ip), Compressed(Groups(ip)), 1)

\* line 41: net.JoinHostPort(ip.String(), "53"); a host with a colon in it,
\* which is the IPv6 text, is put in brackets
JoinHostPort53(ip) ==
  IF IsV4Mapped(ip) THEN IPString(ip) \o ":53"
  ELSE "[" \o IPString(ip) \o "]:53"

\* line 31: the addresses the SockaddrInet6 case skips
Ignored(ip) == ip[1] = 254 /\ ip[2] = 192

\* lines 20-41: the body of the inner loop, for one DNS server entry
AppendServer(list, sa) ==
  IF sa.family = "invalid" THEN list
  ELSE IF sa.family = "inet4"
  THEN Append(list, JoinHostPort53(IPv4(sa.addr[1], sa.addr[2],
                                         sa.addr[3], sa.addr[4])))
  ELSE IF sa.family = "inet6"
  THEN IF Ignored(sa.addr) THEN list
       ELSE Append(list, JoinHostPort53(sa.addr))
  ELSE list

\* line 19: the inner loop over the DNS server entries of one adapter
RECURSIVE ServersLoop(_, _)
ServersLoop(list, servers) ==
  IF servers = << >> THEN list
  ELSE ServersLoop(AppendServer(list, Head(servers)), Tail(servers))

\* line 18: the outer loop over the adapters
RECURSIVE AdaptersLoop(_, _)
AdaptersLoop(list, adapters) ==
  IF adapters = << >> THEN list
  ELSE AdaptersLoop(ServersLoop(list, Head(adapters)), Tail(adapters))

\* a nil slice, and a slice with items
NilSlice == [nil |-> TRUE, items |-> << >>]
Slice(items) == [nil |-> FALSE, items |-> items]

DiscoveryIdle ==
  /\ dpc = "idle"
  /\ l = RecommendedInitialSize
  /\ getCalls = << >>
  /\ aas = NilSlice
  /\ aaErr = "nil"
  /\ ns = NilSlice

\* line 13: nameservers() has called adapterAddresses, which is at line 50
DiscoveryStart ==
  /\ dpc = "loop"
  /\ l = RecommendedInitialSize
  /\ getCalls = << >>
  /\ aas = NilSlice
  /\ aaErr = "nil"
  /\ ns = NilSlice

\* mutant of Grows: any buffer overflow is tried again
GrowsAlways(size, given) == TRUE

\* line 62, negated: the size asked for is larger than the buffer given
Grows(size, given) == size > given

\* lines 50-65: one pass of the loop: allocate l bytes, call
\* GetAdaptersAddresses, and return, leave the loop or go round again
GetAdaptersAddresses ==
  /\ dpc = "loop"
  /\ \E r \in OSResponses(l) :
       /\ getCalls' = Append(getCalls, [given |-> l, errno |-> r.errno,
                                        size |-> r.size])
       /\ l' = r.size
       /\ IF r.errno = "nil"
          THEN IF r.size = 0
               THEN dpc' = "returned" /\ aaErr' = "nil"
               ELSE dpc' = "walk" /\ aaErr' = aaErr
          ELSE IF r.errno /= "ERROR_BUFFER_OVERFLOW"
          THEN dpc' = "returned" /\ aaErr' = "getadaptersaddresses: " \o r.errno
          ELSE IF ~ Grows(r.size, l)
          THEN dpc' = "returned" /\ aaErr' = "getadaptersaddresses: " \o r.errno
          ELSE dpc' = "loop" /\ aaErr' = aaErr
  /\ UNCHANGED <<aas, ns, setVars, dohVars>>

\* lines 66-70: the walk along aa.Next over the list the OS has written
WalkAdapters ==
  /\ dpc = "walk"
  /\ \E adapters \in AdapterLists : aas' = Slice(adapters)
  /\ aaErr' = "nil"
  /\ dpc' = "returned"
  /\ UNCHANGED <<l, getCalls, ns, setVars, dohVars>>

\* lines 13-44: nameservers() with what adapterAddresses returned
nameservers ==
  /\ dpc = "returned"
  /\ ns' = IF aaErr /= "nil" THEN NilSlice
           ELSE Slice(AdaptersLoop(<< >>, aas.items))
  /\ dpc' = "done"
  /\ UNCHANGED <<l, getCalls, aas, aaErr, setVars, dohVars>>

(***************************************************************************)
(* Specifications.                                                         *)
(***************************************************************************)
\* the configs the retry loop and the concurrent callers are run with
FullRouting == [Nameservers   |-> <<Addr4(10, 0, 0, 1)>>,
                SearchDomains |-> << >>,
                MatchDomains  |-> << >>]
SplitRouting == [Nameservers   |-> <<Addr6(<<253,0,0,0,0,0,0,0,0,0,0,0,0,0,0,1>>)>>,
                 SearchDomains |-> <<<<"a">>>>,
                 MatchDomains  |-> <<<<"b">>>>]

\* Spec: one trySet call, on any OSConfig
Init ==
  /\ SetDNSInit([{"c1"} -> OSConfigs], 1, AppliedConnections)
  /\ ResolveIdle
  /\ isDoH3
  /\ DiscoveryIdle
Next == \E p \in Callers : trySetStep(p)
Spec == Init /\ [][Next]_vars

\* SetDNSSpec: one SetDNS call with its retry loop
SetDNSInitOne ==
  /\ SetDNSInit([{"c1"} -> {FullRouting, SplitRouting}], 0, AppliedConnections)
  /\ ResolveIdle
  /\ isDoH3
  /\ DiscoveryIdle
SetDNSNext == \E p \in Callers : SetDNSStep(p)
SetDNSSpec == SetDNSInitOne /\ [][SetDNSNext]_vars

\* time passes, so a pending deadline is reached, and a running call is
\* scheduled, so its next step is taken
SetDNSFairness ==
  \A p \in Callers :
    /\ WF_vars(Deadline(p))
    /\ WF_vars(LoopCheck(p) \/ trySetStep(p) \/ Sleep(p))
FairSetDNSSpec == SetDNSSpec /\ SetDNSFairness

\* ConcurrentSpec: two SetDNS calls on the same interface
SetDNSInitTwo ==
  /\ SetDNSInit({ ("c1" :> FullRouting) @@ ("c2" :> SplitRouting) }, 0,
                {AppliedFull})
  /\ ResolveIdle
  /\ isDoH3
  /\ DiscoveryIdle
ConcurrentSpec == SetDNSInitTwo /\ [][SetDNSNext]_vars

\* RepeatSpec: two SetDNS calls with the same OSConfig on one interface
SetDNSInitRepeat ==
  /\ SetDNSInit({ [p \in Callers |-> c] : c \in {FullRouting, SplitRouting} },
                0, {AppliedFull})
  /\ ResolveIdle
  /\ isDoH3
  /\ DiscoveryIdle
RepeatSpec == SetDNSInitRepeat /\ [][SetDNSNext]_vars

\* ResolveSpec: Resolve calls on one resolver, DoH or DoH3
ResolveInit == SetDNSIdle /\ ResolveIdle /\ DiscoveryIdle
ResolveNext == \E q \in Queriers : ResolveStep(q)
ResolveSpec == ResolveInit /\ [][ResolveNext]_vars

\* DiscoverySpec: one nameservers() call
DiscoveryInit == SetDNSIdle /\ ResolveIdle /\ isDoH3 /\ DiscoveryStart
DiscoveryNext == GetAdaptersAddresses \/ WalkAdapters \/ nameservers
DiscoverySpec == DiscoveryInit /\ [][DiscoveryNext]_vars

(***************************************************************************)
(* The properties.  Common vocabulary first.                               *)
(***************************************************************************)
Range(seq) == { seq[i] : i \in DOMAIN seq }
Count(seq, x) == Cardinality({ i \in DOMAIN seq : seq[i] = x })

\* the caller has handed a settings map to Reapply
HasSent(p) == sent[p] /= << >>
SentMap(p) == sent[p][1].settings
SentValue(p, section, key) == SentMap(p)[section][key].val

\* the number of nameservers of one family in a config
FamilyCount(c, z) == Cardinality({ i \in DOMAIN c.Nameservers : c.Nameservers[i].z = z })

\* the entries a domain can have in dns-search
SearchForm(d) == WithTrailingDot(d)
MatchForm(d)  == "~" \o WithTrailingDot(d)

\* C1: for each address family on its own, trySet writes dns-priority lower
\* (200) when the config has no nameserver of the family, medium (1) when it
\* has one and MatchDomains is non-empty, highest (-2^31) when it has one and
\* MatchDomains is empty; a config without nameservers gets lower in both
\* sections.
C1_PriorityPerFamily ==
  \A p \in Callers : HasSent(p) =>
    LET c == config[p]
        tier(z) == IF FamilyCount(c, z) = 0 THEN 200
                   ELSE IF c.MatchDomains /= << >> THEN 1
                   ELSE -2147483647 - 1
    IN  /\ SentValue(p, "ipv4", "dns-priority") = tier("v4")
        /\ SentValue(p, "ipv6", "dns-priority") = tier("v6")
        /\ c.Nameservers = << >> =>
             /\ SentValue(p, "ipv4", "dns-priority") = 200
             /\ SentValue(p, "ipv6", "dns-priority") = 200

\* C1 witness: a split-DNS config with an IPv4 nameserver only was sent, with
\* medium in the ipv4 section and lower in the ipv6 section
C1_Witness ==
  /\ HasSent("c1")
  /\ FamilyCount(config["c1"], "v4") > 0
  /\ FamilyCount(config["c1"], "v6") = 0
  /\ config["c1"].MatchDomains /= << >>
  /\ config["c1"].SearchDomains /= << >>
  /\ SentValue("c1", "ipv4", "dns-priority") = 1
  /\ SentValue("c1", "ipv6", "dns-priority") = 200

\* C2 as stated: with non-empty Nameservers and empty MatchDomains the
\* dns-priority is highest in both the ipv4 and the ipv6 section.
C2_HighestInBothSections ==
  \A p \in Callers :
    (HasSent(p) /\ config[p].Nameservers /= << >> /\ config[p].MatchDomains = << >>)
    => /\ SentValue(p, "ipv4", "dns-priority") = highestPriority
       /\ SentValue(p, "ipv6", "dns-priority") = highestPriority

\* C2 as amended: with non-empty Nameservers and empty MatchDomains the
\* dns-priority is highest in every section whose family has a nameserver,
\* which is at least one section, and lower in a section whose family has none.
C2_HighestWhereNameservers ==
  \A p \in Callers :
    (HasSent(p) /\ config[p].Nameservers /= << >> /\ config[p].MatchDomains = << >>)
    => LET p4 == SentValue(p, "ipv4", "dns-priority")
           p6 == SentValue(p, "ipv6", "dns-priority")
       IN  /\ p4 = highestPriority \/ p6 = highestPriority
           /\ p4 = highestPriority <=> FamilyCount(config[p], "v4") > 0
           /\ p6 = highestPriority <=> FamilyCount(config[p], "v6") > 0
           /\ p4 = lowerPriority <=> FamilyCount(config[p], "v4") = 0
           /\ p6 = lowerPriority <=> FamilyCount(config[p], "v6") = 0

\* C2 witness: full routing with IPv4 nameservers only: highest in ipv4,
\* lower in ipv6
C2_Witness ==
  /\ HasSent("c1")
  /\ config["c1"].MatchDomains = << >>
  /\ FamilyCount(config["c1"], "v4") = Len(config["c1"].Nameservers)
  /\ Len(config["c1"].Nameservers) > 0
  /\ SentValue("c1", "ipv4", "dns-priority") = highestPriority
  /\ SentValue("c1", "ipv6", "dns-priority") = lowerPriority

\* C3 as stated: the dns-search list, the same in both sections, holds "~."
\* exactly once and last when MatchDomains is empty, and holds no "~." when
\* MatchDomains is non-empty.
C3_BlanketOnlyWithoutMatchDomains ==
  \A p \in Callers : HasSent(p) =>
    LET list == SentValue(p, "ipv4", "dns-search")
    IN  /\ SentValue(p, "ipv6", "dns-search") = list
        /\ config[p].MatchDomains = << >> =>
             /\ Count(list, "~.") = 1
             /\ list[Len(list)] = "~."
        /\ config[p].MatchDomains /= << >> => Count(list, "~.") = 0

\* C3 as amended: the dns-search list, the same in both sections, holds "~."
\* exactly once and last when MatchDomains is empty; when MatchDomains is
\* non-empty it holds "~." only as the per-domain entry of the root domain,
\* once, and only when the root domain is a match domain and not a search
\* domain; every other match domain that is emitted is emitted as "~domain.".
C3_BlanketOrRootMatchDomain ==
  \A p \in Callers : HasSent(p) =>
    LET list == SentValue(p, "ipv4", "dns-search")
        c == config[p]
    IN  /\ SentValue(p, "ipv6", "dns-search") = list
        /\ c.MatchDomains = << >> =>
             /\ Count(list, "~.") = 1
             /\ list[Len(list)] = "~."
        /\ c.MatchDomains /= << >> =>
             /\ Count(list, "~.") =
                  (IF Root \in Range(c.MatchDomains) \ Range(c.SearchDomains)
                   THEN 1 ELSE 0)
             /\ \A d \in Range(c.MatchDomains) \ Range(c.SearchDomains) :
                  Count(list, MatchForm(d)) = 1

\* C3 witness: the config Nameservers = [10.0.0.1] without search or match
\* domains was sent with dns-search = ["~."]
C3_Witness ==
  /\ HasSent("c1")
  /\ config["c1"] = [Nameservers |-> <<Addr4(10, 0, 0, 1)>>,
                     SearchDomains |-> << >>, MatchDomains |-> << >>]
  /\ SentValue("c1", "ipv4", "dns-search") = <<"~.">>

\* the per-domain entries of a dns-search list: all of it but the all-domains
\* match that closes it when MatchDomains is empty
DomainEntries(c, list) ==
  IF c.MatchDomains = << >> THEN SubSeq(list, 1, Len(list) - 1) ELSE list

C5_SharedDomainAsMatch ==
  \A p \in Callers : HasSent(p) =>
    LET c == config[p]
        entries == DomainEntries(c, SentValue(p, "ipv4", "dns-search"))
    IN  \A d \in Range(c.SearchDomains) \cap Range(c.MatchDomains) :
          /\ Count(entries, MatchForm(d)) = 1
          /\ Count(entries, SearchForm(d)) = 0

\* C5 as amended: a domain in both SearchDomains and MatchDomains is emitted
\* once, in the form of a search domain ("domain." without "~"), and its
\* "~"-prefixed form is not emitted.
C5_SharedDomainAsSearch ==
  \A p \in Callers : HasSent(p) =>
    LET c == config[p]
        list == SentValue(p, "ipv4", "dns-search")
    IN  \A d \in Range(c.SearchDomains) \cap Range(c.MatchDomains) :
          /\ Count(list, SearchForm(d)) = 1
          /\ Count(list, MatchForm(d)) = 0

\* C5 witness: the same domain as the only search and the only match domain
C5_Witness ==
  /\ HasSent("c1")
  /\ config["c1"].SearchDomains = << <<"a">> >>
  /\ config["c1"].MatchDomains = << <<"a">> >>
  /\ SentValue("c1", "ipv4", "dns-search") = <<"a.">>

\* the wire form of a nameserver in the dns list of its family
WireForm(ip) == IF ip.z = "v4" THEN Uint32(SubSeq(ip.b16, 13, 16)) ELSE ip.b16

\* C6 as stated: the ipv4 and the ipv6 dns list each hold no address more
\* than once, whatever config.Nameservers repeats.
C6_NoRepeatedNameserver ==
  \A p \in Callers : HasSent(p) =>
    /\ \A x \in Range(SentValue(p, "ipv4", "dns")) :
         Count(SentValue(p, "ipv4", "dns"), x) = 1
    /\ \A x \in Range(SentValue(p, "ipv6", "dns")) :
         Count(SentValue(p, "ipv6", "dns"), x) = 1

\* C6 as amended: Nameservers are split by address family and not
\* deduplicated: each dns list holds the nameservers of its family as often
\* as config.Nameservers does, and nothing else, so a repeated nameserver is
\* repeated in the list of its family.
C6_NameserversKeptPerFamily ==
  \A p \in Callers : HasSent(p) =>
    LET c == config[p]
        dns4 == SentValue(p, "ipv4", "dns")
        dns6 == SentValue(p, "ipv6", "dns")
    IN  /\ Len(dns4) = FamilyCount(c, "v4")
        /\ Len(dns6) = FamilyCount(c, "v6")
        /\ \A ip \in Addrs :
             Count(IF ip.z = "v4" THEN dns4 ELSE dns6, WireForm(ip))
               = Count(c.Nameservers, ip)

\* C6 witness: 10.0.0.1 given twice was sent twice in the ipv4 dns list
C6_Witness ==
  /\ HasSent("c1")
  /\ config["c1"].Nameservers = <<Addr4(10, 0, 0, 1), Addr4(10, 0, 0, 1)>>
  /\ SentValue("c1", "ipv4", "dns") = <<16777226, 16777226>>
  /\ SentValue("c1", "ipv6", "dns") = << >>

\* the places of pc inside trySet
InTrySet == {"bus", "getDevice", "getApplied", "mutate"}

\* C7: SetDNS starts an attempt only from its loop condition and only while
\* the deadline has not passed; an attempt that returns nil ends the call at
\* once with nil; an attempt that returns any error leads to the sleep and
\* then back to the loop condition; at the loop condition after the deadline
\* no attempt starts and the call returns the error the last attempt left;
\* a call that returned stays returned; and every call comes to an end.
C7_RetryLoop ==
  /\ [][\A p \in Callers :
          /\ nAttempts'[p] /= nAttempts[p] =>
               /\ ~ expired[p]
               /\ pc[p] = "loop" /\ pc'[p] = "bus"
               /\ nAttempts'[p] = nAttempts[p] + 1
          /\ (pc[p] \in InTrySet /\ pc'[p] \notin InTrySet \cup {"panic"}) =>
               /\ err'[p] \in Errors
               /\ IF err'[p] = "nil"
                  THEN pc'[p] = "done" /\ rv'[p] = "nil"
                  ELSE pc'[p] = "sleep"
          /\ (pc[p] = "sleep" /\ pc'[p] /= "sleep") => pc'[p] = "loop"
          /\ (pc[p] = "loop" /\ expired[p] /\ pc'[p] /= "loop") =>
               /\ pc'[p] = "done"
               /\ rv'[p] = err[p]
               /\ nAttempts[p] > 0 => rv'[p] /= "nil"
          /\ pc[p] = "done" =>
               pc'[p] = "done" /\ rv'[p] = rv[p] /\ err'[p] = err[p]
       ]_vars
  /\ <>(\A p \in Callers : pc[p] \in {"idle", "done", "panic"})

\* C7 witness: the call returned the reapply error of its last attempt after
\* the deadline, having made every attempt the deadline left room for
C7_Witness ==
  /\ pc["c1"] = "done"
  /\ expired["c1"]
  /\ nAttempts["c1"] = MaxAttempts
  /\ rv["c1"] = "reapply"

\* C8: with two SetDNS calls on one interface no update is lost: a caller
\* reaches Reapply only through the GetAppliedConnection of the same attempt
\* and hands over the version token that call stored; a Reapply whose token
\* is stale, another caller's Reapply having succeeded since the read, fails
\* with the reapply error and leaves the applied connection as it is; and the
\* applied connection changes only by a Reapply holding the current token,
\* made on a read that nothing has overtaken.
C8_NoLostUpdate ==
  /\ [](~ lostUpdate)
  /\ [][\A p \in Callers :
          /\ (pc'[p] = "mutate" /\ pc[p] /= "mutate") =>
               /\ pc[p] = "getApplied"
               /\ version'[p] = osVersion
               /\ settings'[p] = ReturnedForReading(osSettings)
          /\ pc[p] = "mutate" =>
               version'[p] = version[p] /\ nAttempts'[p] = nAttempts[p]
          /\ (pc[p] = "mutate" /\ pc'[p] /= "mutate") =>
               /\ sent'[p][1].version = version[p]
               /\ sent'[p][1].at = osVersion
               /\ (overtaken[p] \/ version[p] /= osVersion) =>
                    /\ err'[p] = "reapply" /\ pc'[p] = "sleep"
                    /\ osSettings' = osSettings /\ osVersion' = osVersion
       ]_vars
  /\ [][osVersion' /= osVersion =>
          \E p \in Callers :
            /\ pc[p] = "mutate" /\ pc'[p] = "done"
            /\ ~ overtaken[p] /\ version[p] = osVersion
            /\ osVersion' = osVersion + 1
            /\ osSettings' = sent'[p][1].settings
            /\ err'[p] = "nil"
       ]_vars

\* C8 witness: c1's Reapply carried a token that c2's successful Reapply had
\* made stale and failed; then c1 read again and its second attempt succeeded
C8_Witness ==
  /\ pc["c2"] = "done" /\ rv["c2"] = "nil" /\ nAttempts["c2"] = 1
  /\ pc["c1"] = "done" /\ rv["c1"] = "nil" /\ nAttempts["c1"] = 2
  /\ sent["c2"][1].version = 1
  /\ sent["c1"][1].version = 2
  /\ osVersion = 3
  /\ osSettings = sent["c1"][1].settings

\* C8 witness of the conflict itself is the state before: c1 sleeps on a
\* reapply error whose token was older than the device's version id
C8_ConflictSeen ==
  /\ pc["c1"] = "sleep" /\ err["c1"] = "reapply"
  /\ sent["c1"][1].version < sent["c1"][1].at

\* a DoH3 Resolve call that returned the transport-level failure
FailedAtTransport(q) ==
  /\ isDoH3
  /\ qpc[q] = "returned"
  /\ result[q].err = "could not perform request"

C10_CallsIndependent ==
  \A q \in Queriers :
    (qpc[q] = "returned" /\ Succeeds(exchange[q])) => result[q].err = "nil"

\* the HTTP exchange of the call gave Resolve a response: c.Do returned one
GotResponse(q) ==
  /\ qpc[q] = "returned"
  /\ exchange[q].kind = "response"
  /\ ~ aborted[q]

\* C11: when the upstream answers a Resolve request with status 200 and a
\* well-formed packed DNS message, Resolve returns a message equal to that
\* response and a nil error; when it answers with any other status, Resolve
\* returns an error and no message, whatever the body contains, and the error
\* carries the body and the status code when the body could be read.
C11_OutcomeByStatus ==
  \A q \in Queriers : GotResponse(q) =>
    LET x == exchange[q]
    IN  /\ (x.status = 200 /\ x.readOk /\ WellFormed(x.body)) =>
              /\ result[q].err = "nil"
              /\ result[q].msg /= NilMsg
              /\ Pack(result[q].msg) = x.body
        /\ x.status /= 200 =>
              /\ result[q].err /= "nil"
              /\ result[q].msg = NilMsg
              /\ x.readOk =>
                   result[q].err = "wrong response from DOH server, got: "
                                   \o ToString(x.body) \o ", status: "
                                   \o ToString(x.status)

\* C11 witness: q1 was answered 200 with the packed answer and returned it;
\* q2 was answered 503 with the same well-formed body and returned the error
C11_Witness ==
  /\ GotResponse("q1") /\ GotResponse("q2")
  /\ exchange["q1"].status = 200 /\ exchange["q1"].body = Pack(Answer)
  /\ exchange["q1"].readOk
  /\ result["q1"] = [msg |-> Answer, err |-> "nil"]
  /\ exchange["q2"].status = 503 /\ exchange["q2"].body = Pack(Answer)
  /\ exchange["q2"].readOk
  /\ result["q2"].msg = NilMsg
  /\ result["q2"].err = "wrong response from DOH server, got: <<7, 0>>, status: 503"

\* the step in which q's c.Do returns, and the one in which q's call starts
DoReturns(q) == qpc[q] = "inflight" /\ qpc'[q] = "returned"
CallStarts(q) == qpc[q] /= "inflight" /\ nCalls'[q] /= nCalls[q]

\* C17: Resolve closes the shared HTTP/3 round-tripper exactly when the
\* resolver is the DoH3 variant and the HTTP exchange fails at transport
\* level: a DoH resolver never closes the round-tripper and never sends
\* through it; a DoH3 call that gets an HTTP response (200, non-200 or an
\* undecodable body), or that fails before the request is sent, leaves the
\* round-tripper as it is; and every Close is made by a DoH3 call returning
\* the transport failure.
C17_ClosedOnDoH3TransportFailureOnly ==
  /\ [](~ isDoH3 => (rtCloses = 0 /\ rtSession = "none"))
  /\ [][\A q \in Queriers :
          /\ CallStarts(q) =>
               /\ rtCloses' = rtCloses
               /\ qpc'[q] = "returned" => rtSession' = rtSession
          /\ DoReturns(q) =>
               IF isDoH3 /\ result'[q].err = "could not perform request"
               THEN rtCloses' = rtCloses + 1 /\ rtSession' = "none"
               ELSE rtCloses' = rtCloses /\ rtSession' = rtSession
       ]_vars
  /\ [][rtCloses' /= rtCloses =>
          \E q \in Queriers :
            /\ DoReturns(q)
            /\ isDoH3
            /\ exchange[q].kind = "transport error" \/ aborted[q]
            /\ result'[q].err = "could not perform request"
       ]_vars

\* C17 witness: on a DoH3 resolver q1's call failed at transport level and
\* closed the round-tripper; q2's call, made after that, got a 200 response
\* with an undecodable body and left the round-tripper open
C17_Witness ==
  /\ FailedAtTransport("q1")
  /\ rtCloses = 1
  /\ closesBefore["q2"] = 1
  /\ GotResponse("q2")
  /\ exchange["q2"].status = 200 /\ ~ WellFormed(exchange["q2"].body)
  /\ result["q2"].err = "unpack"
  /\ rtSession = "open"

\* C19: whenever Resolve returns a non-nil error, the message it returns is
\* nil, on every failure path: pack error, request-construction error,
\* transport error, body-read error, non-200 status, and a 200 response whose
\* body fails to decode as a DNS message.
C19_ErrorMeansNilMessage ==
  \A q \in Queriers :
    (qpc[q] = "returned" /\ result[q].err /= "nil") => result[q].msg = NilMsg

\* p's SetDNS succeeded, and q's last Reapply came from a trySet run with the
\* same OSConfig on the settings p had applied, the interface's IPv6
\* addresses being the same
RanAgainAfter(q, p) ==
  /\ p /= q
  /\ HasSent(p) /\ pc[p] = "done" /\ rv[p] = "nil"
  /\ HasSent(q)
  /\ config[q] = config[p]
  /\ sent[q][1].read = ReturnedForReading(SentMap(p))
  /\ sent[q][1].ifaddrs = sent[p][1].ifaddrs

\* C14: if trySet succeeds with an OSConfig and is then run again with the
\* same OSConfig on the settings the OS now reports as applied, the
\* interface's IPv6 addresses unchanged, the settings map the second run
\* hands to Reapply equals the one the first run handed over.
C14_SecondRunSubmitsTheSame ==
  \A p, q \in Callers : RanAgainAfter(q, p) => SentMap(q) = SentMap(p)

\* C14 witness: c1 applied a config on an interface with an IPv6 address;
\* c2 then read what c1 had applied, ran with the same config and applied too
C14_Witness ==
  /\ RanAgainAfter("c2", "c1")
  /\ sent["c1"][1].ifaddrs /= << >>
  /\ sent["c1"][1].at = 1
  /\ sent["c2"][1].at = 2
  /\ pc["c2"] = "done" /\ rv["c2"] = "nil"
  /\ osVersion = 3
  /\ sent["c1"][1].read /= sent["c2"][1].read
  /\ "addresses" \in DOMAIN sent["c2"][1].read["ipv6"]
  /\ "addresses" \notin DOMAIN SentMap("c2")["ipv6"]

\* the keys trySet may write in a section, and the keys it removes
WrittenKeys(section) ==
  IF section = "ipv4" THEN {"dns", "dns-search", "dns-priority"}
  ELSE IF section = "ipv6"
  THEN {"method", "address-data", "ignore-auto-routes", "ignore-auto-dns",
        "never-default", "dns", "dns-search", "dns-priority"}
  ELSE {}
RemovedKeys(section) ==
  IF section \in {"ipv4", "ipv6"} THEN {"addresses", "routes"} ELSE {}

\* key k of the section is the same, present or absent, in both maps
SameEntry(old, new, section, k) ==
  /\ k \in DOMAIN old[section] <=> k \in DOMAIN new[section]
  /\ k \in DOMAIN old[section] => new[section][k] = old[section][k]

\* C15: the map trySet hands to Reapply has the sections of the map
\* GetAppliedConnection returned and differs from it only in the ipv4 keys
\* dns, dns-search, dns-priority, in the ipv6 keys method, address-data,
\* ignore-auto-routes, ignore-auto-dns, never-default, dns, dns-search,
\* dns-priority, and in that addresses and routes are gone from those two
\* sections; every other section and key is as it was read; and ipv6
\* address-data is written, with one entry per address, only when the
\* interface has an IPv6 address, and is otherwise as it was read.
C15_FrameOfTheMutation ==
  \A p \in Callers : HasSent(p) =>
    LET old == sent[p][1].read
        new == SentMap(p)
    IN  /\ DOMAIN new = DOMAIN old
        /\ \A section \in DOMAIN old :
             /\ \A k \in (DOMAIN old[section] \cup DOMAIN new[section])
                        \ (WrittenKeys(section) \cup RemovedKeys(section)) :
                  SameEntry(old, new, section, k)
             /\ DOMAIN new[section] \cap RemovedKeys(section) = {}
        /\ IF sent[p][1].ifaddrs = << >>
           THEN SameEntry(old, new, "ipv6", "address-data")
           ELSE /\ "address-data" \in DOMAIN new["ipv6"]
                /\ Len(new["ipv6"]["address-data"].val) = Len(sent[p][1].ifaddrs)
                /\ \A i \in DOMAIN sent[p][1].ifaddrs :
                     new["ipv6"]["address-data"].val[i].address
                       = sent[p][1].ifaddrs[i]

\* C15 witness: a map was sent for an interface without IPv6 address: the
\* connection section, the ipv4 method, the ipv6 ip6-privacy and the ipv6
\* address-data are as read, the ipv6 method is rewritten, addresses is gone
C15_Witness ==
  /\ HasSent("c1")
  /\ sent["c1"][1].ifaddrs = << >>
  /\ SentMap("c1")["connection"] = sent["c1"][1].read["connection"]
  /\ SentValue("c1", "ipv4", "method") = "manual"
  /\ SentValue("c1", "ipv6", "ip6-privacy") = 2
  /\ SentValue("c1", "ipv6", "address-data")[1].address = "fd00::9"
  /\ SentValue("c1", "ipv6", "method") = "auto"
  /\ sent["c1"][1].read["ipv6"]["method"].val = "link-local"
  /\ "addresses" \in DOMAIN sent["c1"][1].read["ipv4"]
  /\ "addresses" \notin DOMAIN SentMap("c1")["ipv4"]
  /\ config["c1"].Nameservers /= << >>

\* the operation a failure of the step is named after, lines 73, 106, 119
FailingOperation(step) ==
  CASE step = "bus"        -> "connecting to system bus"
    [] step = "getDevice"  -> "getDeviceByIpIface"
    [] step = "getApplied" -> "getAppliedConnection"

\* C16: within one trySet attempt the IPC steps run in the order
\* GetDeviceByIpIface, GetAppliedConnection, Reapply, each reached only from
\* the success of the one before; a failure of the system-bus connection,
\* of GetDeviceByIpIface or of GetAppliedConnection ends the attempt with an
\* error named after the failing operation, issues no Reapply and leaves the
\* applied settings as they are; a Reapply ends the attempt, so that an
\* attempt issues at most one; and the applied settings change in a Reapply
\* step only.
C16_StepsInOrderFailureEndsAttempt ==
  [][/\ \A p \in Callers :
          /\ pc'[p] = "bus" /\ pc[p] /= "bus" =>
               pc[p] = "loop" /\ nAttempts'[p] = nAttempts[p] + 1
          /\ pc'[p] = "getDevice" /\ pc[p] /= "getDevice" => pc[p] = "bus"
          /\ pc'[p] = "getApplied" /\ pc[p] /= "getApplied" => pc[p] = "getDevice"
          /\ pc'[p] = "mutate" /\ pc[p] /= "mutate" => pc[p] = "getApplied"
          /\ pc[p] \in InTrySet => nAttempts'[p] = nAttempts[p]
          /\ (pc[p] \in {"bus", "getDevice", "getApplied"} /\ pc'[p] = "sleep") =>
               /\ err'[p] = FailingOperation(pc[p])
               /\ sent' = sent
               /\ osSettings' = osSettings /\ osVersion' = osVersion
          /\ pc[p] \in {"bus", "getDevice", "getApplied"} =>
               pc'[p] \in {pc[p], "sleep", "getDevice", "getApplied", "mutate"}
          /\ sent'[p] /= sent[p] =>
               /\ pc[p] = "mutate" /\ pc'[p] \in {"done", "sleep"}
               /\ sent'[p][1].attempt = nAttempts[p]
               /\ sent[p] = << >> \/ sent[p][1].attempt < nAttempts[p]
     /\ (osSettings' /= osSettings \/ osVersion' /= osVersion) =>
          \E p \in Callers : pc[p] = "mutate" /\ sent'[p] /= sent[p]
    ]_vars

\* C16 witness: the first attempt reached Reapply, which failed; the second
\* attempt failed at GetDeviceByIpIface and issued no Reapply: the last
\* Reapply is the first attempt's, and the applied settings are the initial
\* ones
C16_Witness ==
  /\ nAttempts["c1"] = 2
  /\ pc["c1"] = "sleep"
  /\ err["c1"] = "getDeviceByIpIface"
  /\ HasSent("c1") /\ sent["c1"][1].attempt = 1
  /\ osVersion = 1 /\ osSettings = AppliedFull

\* C18: SetDNS returns nil only if some trySet attempt inside that call
\* returned nil, that is, only after an attempt that handed the
\* configuration to Reapply; this includes the call whose deadline has
\* passed at the first loop check, which makes no attempt.
C18_NilOnlyAfterSuccessfulAttempt ==
  \A p \in Callers :
    (pc[p] = "done" /\ rv[p] = "nil") =>
      /\ nAttempts[p] >= 1
      /\ HasSent(p)
      /\ sent[p][1].attempt = nAttempts[p]

\* C20: for every settings map GetAppliedConnection can return, one without
\* the ipv4 or the ipv6 section included, a trySet attempt ends by returning
\* nil or an error: it never aborts while writing into a missing section.
C20_NeverAborts ==
  \A p \in Callers : pc[p] /= "panic"

\* a GetAdaptersAddresses call that asked for a buffer larger than the one
\* it was given
GrowingOverflow(call) ==
  call.errno = "ERROR_BUFFER_OVERFLOW" /\ call.size > call.given
LastCall == getCalls[Len(getCalls)]
Overflows == { i \in DOMAIN getCalls : getCalls[i].errno = "ERROR_BUFFER_OVERFLOW" }

\* C12: adapterAddresses' loop ends. The first call gives a buffer of 15000
\* bytes; a further call is made only after a buffer overflow that asked for
\* more than the buffer given, and gives a buffer of the size asked for, so
\* that the buffers grow strictly; after n+1 such overflows and a success
\* the loop has made n+2 calls and returns without error; a buffer overflow
\* that asks for no more than the buffer given returns an error and makes no
\* further call; any other errno returns an error and makes no further call.
C12_BufferLoopEnds ==
  /\ getCalls /= << >> => getCalls[1].given = 15000
  /\ \A i \in 2..Len(getCalls) :
       /\ GrowingOverflow(getCalls[i - 1])
       /\ getCalls[i].given = getCalls[i - 1].size
       /\ getCalls[i].given > getCalls[i - 1].given
  /\ (dpc = "loop" /\ getCalls /= << >>) => GrowingOverflow(LastCall)
  /\ dpc \in {"walk", "returned", "done"} =>
       /\ ~ GrowingOverflow(LastCall)
       /\ LastCall.errno = "nil" =>
            /\ aaErr = "nil"
            /\ Len(getCalls) = Cardinality(Overflows) + 1
       /\ LastCall.errno /= "nil" =>
            /\ dpc /= "walk"
            /\ aaErr /= "nil"
            /\ aas = NilSlice

\* C12 witness: overflows asking for 20000 and then 25000 bytes, n = 1, then
\* success: three calls were made and the adapter list was returned
C12_Witness ==
  /\ dpc = "done"
  /\ Len(getCalls) = 3
  /\ getCalls[1].size = 20000 /\ getCalls[2].size = 25000
  /\ Overflows = {1, 2}
  /\ getCalls[3].errno = "nil" /\ getCalls[3].given = 25000
  /\ aaErr = "nil" /\ ~ aas.nil
  /\ ns.items /= << >>

\* the first 10 bits of the 16-byte address are 1111 1110 11
InFEC0Slash10(ip) == ip[1] = 254 /\ ip[2] \div 64 = 3

\* the entry of the list that denotes the server's address
Denoting(sa) ==
  JoinHostPort53(IF sa.family = "inet4"
                 THEN IPv4(sa.addr[1], sa.addr[2], sa.addr[3], sa.addr[4])
                 ELSE sa.addr)

\* C13: no string returned by nameservers() denotes an address inside
\* fec0::/10 (first 10 bits 1111 1110 11), and no address retained, of
\* either family, has 0xFE, 0xC0 as its first two raw bytes.
C13_NoSiteLocalReturned ==
  \A sa \in { x \in Sockaddrs : x.family \in {"inet4", "inet6"} } :
    (\/ sa.family = "inet6" /\ InFEC0Slash10(sa.addr)
     \/ sa.addr[1] = 254 /\ sa.addr[2] = 192)
    => \A i \in DOMAIN ns.items : ns.items[i] /= Denoting(sa)

====
